---- MODULE Spec2Model ----
(***************************************************************************)
(* signal-link: end-to-end encrypted peer-to-peer chat.                    *)
(*                                                                         *)
(* lib/crypto (src/src/components/UserList.tsx:111-298), the useWebRTC     *)
(* hook (src/src/hooks/useWebRTC.tsx:15-176), the Chat page key setup      *)
(* (src/src/pages/Chat.tsx:154-182) and the MessageInterface send path     *)
(* (src/unnamed/part_000:26-31).                                           *)
(*                                                                         *)
(* Cryptographic primitives are modelled symbolically: an AES-GCM          *)
(* ciphertext remembers the key, nonce and data it was produced from and   *)
(* the set of bit positions flipped since; X25519 is a Diffie-Hellman      *)
(* exchange computed in a small multiplicative group.                      *)
(***************************************************************************)
EXTENDS Integers, Sequences, FiniteSets, TLC

VARIABLES
    now,                        \* Date.now() in ms
    ticks,                      \* number of clock advances so far
    \* ---- the two browsers (parties 1 and 2) ----
    uid,                        \* user.id of each party (string as code units)
    storedKeys,                 \* localforage item 'securechat_keys'
    profileKey,                 \* profiles.public_key column of each user
    keysReady,                  \* Chat: keysReady state
    phase,                      \* position of the effect / initPeer
    peer,                       \* useWebRTC: peer state (transport set?)
    connected,                  \* useWebRTC: connected state
    messages,                   \* useWebRTC: messages state (transcript)
    sharedSecret,               \* useWebRTC: sharedSecret state
    sequenceNumber,             \* useWebRTC: sequenceNumber state
    expectedIncomingSequence,   \* useWebRTC: expectedIncomingSequence state
    closure,                    \* what the effect's render closed over (props and state)
    transport,                  \* the SimplePeer instance created by initPeer
    pending,                    \* sendMessage calls suspended at await encryptMessage
    net,                        \* envelopes transmitted to each party, in send order
    handled,                    \* number of 'data' events handled by each party
    inOrder,                    \* every 'data' event so far was the next sent envelope, unmodified and fresh
    lastData,                   \* outcome of the latest 'data' event of each party
    \* ---- SecureFramer exercised on its own ----
    fin,                        \* inputs (m, s, n) of the encryptMessage call
    orig,                       \* the frame encryptMessage returned
    wire,                       \* that frame as it reaches decryptMessage
    dec,                        \* the latest decryptMessage call and its outcome
    \* ---- the servers ----
    profiles,                   \* profiles table: which user ids have a row, and online_status
    served,                     \* the latest request to the signaling validator and its response
    relay,                      \* broadcasts user 1's client has handed the Realtime relay
    updates,                    \* profile updates the directory has been handed
    \* ---- one conversation view (user 1's MessageInterface) over its life ----
    selectedPeer,               \* Chat: selectedPeer (0 = null)
    mountId,                    \* which MessageInterface instance is (or was last) mounted
    hook,                       \* useWebRTC: the state of the mounted instance
    effects,                    \* the effect runs so far, each with what it closed over
    conns,                      \* the SimplePeer instances created so far
    channelRef,                 \* useWebRTC: channelRef.current (effect whose channel it holds)
    subs,                       \* effect runs whose signaling subscription is live
    lastSend,                   \* the latest sendMessage call: did it pass the guard
    \* ---- interleavings of the two browsers' setup ----
    negotiation,                \* per party: signals its transport has emitted and been fed
    keyRuns,                    \* the runs of user 1's Chat.initializeKeys so far
    \* ---- user 1's AuthProvider ----
    auth                        \* its state, the client's session, pending events and timers

vars == <<now, ticks, uid, storedKeys, profileKey, keysReady, phase, peer,
          connected, messages, sharedSecret, sequenceNumber,
          expectedIncomingSequence, closure, transport, pending, net, handled, inOrder,
          lastData, fin, orig, wire, dec, profiles, served, relay, updates,
          selectedPeer, mountId, hook, effects, conns, channelRef, subs,
          lastSend, negotiation, keyRuns, auth>>

clockVars   == <<now, ticks>>
keyVars     == <<storedKeys, profileKey, keysReady>>
hookVars    == <<phase, peer, connected, messages, sharedSecret, sequenceNumber,
                 expectedIncomingSequence, closure, transport, pending>>
wireVars    == <<net, handled, inOrder, lastData>>
framerVars  == <<fin, orig, wire, dec>>
serveVars   == <<profiles, served>>
serverVars  == <<relay, updates>>
lifeVars    == <<selectedPeer, mountId, hook, effects, conns, channelRef, subs,
                 lastSend>>
orderVars   == <<negotiation, keyRuns, auth>>
restVars    == <<serveVars, serverVars, lifeVars, orderVars>>
sessionVars == <<uid, keyVars, hookVars, wireVars, restVars>>

----------------------------------------------------------------------------
(* Bounds *)

MaxTicks      == 1      \* clock advances per behaviour
MaxSends      == 2      \* sendMessage calls, both parties together
MaxDeliveries == 2      \* 'data' events, both parties together
MaxPriv       == 3      \* private scalars 1..MaxPriv
MaxSeq        == 2      \* sequence numbers 0..MaxSeq fed to the framer directly
MaxBit        == 1      \* bit positions 1..MaxBit that a tamperer can flip
MaxSignIns    == 2      \* signIn calls per page load

Parties == {1, 2}
Other(p) == 3 - p

Texts == {"hello", "bye"}       \* plaintexts fed to the framer
Typed == {"hello"}              \* what the users type

\* user ids, as sequences of UTF-16 code units
Ids == {<<1>>, <<1, 1>>, <<1, 2>>, <<2>>, <<2, 1>>}

SessionSteps == {301000}            \* clock advances offered to the sessions
FramerSteps  == {1000, 300000, 301000}  \* clock advances offered to the framer alone

----------------------------------------------------------------------------
(* lib/crypto *)

\* the curve: a multiplicative group modulo a small prime
FieldPrime == 23
BasePoint  == 5

RECURSIVE ModExp(_, _)
ModExp(b, e) == IF e = 0 THEN 1 ELSE (b * ModExp(b, e - 1)) % FieldPrime

\* x25519.getPublicKey(privateKey)
getPublicKey(privateKey) == ModExp(BasePoint, privateKey)

\* x25519.getSharedSecret(privateKey, peerPublicKey)
getSharedSecret(privateKey, peerPublicKey) == ModExp(peerPublicKey, privateKey)

\* generateKeyPair(): the private key is the random input
generateKeyPair(privateKey) ==
    [publicKey |-> getPublicKey(privateKey), privateKey |-> privateKey]

NoKeys == [publicKey |-> 0, privateKey |-> 0]      \* getKeys() returning null

\* crypto.subtle.deriveBits HKDF-SHA256, zero salt, 256 bits
HKDF(ikm) == [ikm |-> ikm, salt |-> 0, info |-> "SecureChat-v1-Encryption", bits |-> 256]

\* btoa / atob : bytes <-> base64 text
btoa(bytes) == <<"b64", bytes>>
atob(text)  == text[2]

publicKeyToBase64(publicKey) == btoa(publicKey)
base64ToPublicKey(base64)    == atob(base64)

EmptyKeyText == btoa(0)        \* profile.public_key || ''  (no key published)

\* a public key every byte of which decodes to a usable curve point
ValidPublicKey(publicKey) == publicKey \in 1..(FieldPrime - 1)

generateSharedSecretXor(privateKey, peerPublicKey) ==
    HKDF((privateKey + peerPublicKey) % FieldPrime)

\* generateSharedSecret(privateKey, peerPublicKey)
generateSharedSecret(privateKey, peerPublicKey) ==
    HKDF(getSharedSecret(privateKey, peerPublicKey))

\* JSON.stringify / JSON.parse
JSONstringify(value) == <<"json", value>>
IsJSON(text)         == text[1] = "json"
JSONparse(text)      == text[2]
Garbage              == <<"raw", 0>>       \* data that is not JSON

\* 12 random bytes
IvBytes(n) == [nonce |-> n, flipped |-> {}]

\* crypto.getRandomValues for the k-th encryption of party p: random, taken
\* never to repeat
FreshIv(p, k) == 100 * p + k

\* crypto.subtle.encrypt({name:'AES-GCM', iv}, key, data): ciphertext and tag
subtleEncrypt(key, iv, data) ==
    [key |-> key, nonce |-> iv.nonce, data |-> data, flipped |-> {}]

\* crypto.subtle.decrypt resolves iff the tag verifies under (key, iv)
subtleDecryptOk(key, iv, ciphertext) ==
    /\ ciphertext.flipped = {}
    /\ iv.flipped = {}
    /\ ciphertext.nonce = iv.nonce
    /\ ciphertext.key = key

\* flipping one bit of a byte string
FlipBit(bytes, i) ==
    [bytes EXCEPT !.flipped = (@ \ {i}) \cup ({i} \ @)]

FreshnessMs == 5 * 60 * 1000

Undefined == -1            \* expectedSequence omitted

AuthError     == "Message authentication failed - possible tampering detected"
SequenceError == "Invalid sequence number - possible replay attack"
StaleError    == "Message too old - possible replay attack"
SyntaxError   == "SyntaxError"

encryptMessageFirstSequence(message, secret, sequence, clock, ivNonce) ==
    LET timestamp == clock
        payload   == JSONstringify([text |-> message, sequence |-> 0,
                                    timestamp |-> timestamp])
        iv        == IvBytes(ivNonce)
        encrypted == subtleEncrypt(secret, iv, payload)
        result    == [ciphertext |-> btoa(encrypted), iv |-> btoa(iv),
                      sequence |-> sequence, timestamp |-> timestamp]
    IN  JSONstringify(result)

\* encryptMessage(message, sharedSecret, sequence); clock and IV are its
\* hidden inputs
encryptMessage(message, secret, sequence, clock, ivNonce) ==
    LET timestamp == clock
        payload   == JSONstringify([text |-> message, sequence |-> sequence,
                                    timestamp |-> timestamp])
        iv        == IvBytes(ivNonce)
        encrypted == subtleEncrypt(secret, iv, payload)
        result    == [ciphertext |-> btoa(encrypted), iv |-> btoa(iv),
                      sequence |-> sequence, timestamp |-> timestamp]
    IN  JSONstringify(result)

Resolved(payload) ==
    [ok |-> TRUE, error |-> "", text |-> payload.text,
     sequence |-> payload.sequence, timestamp |-> payload.timestamp]

Rejected(error) ==
    [ok |-> FALSE, error |-> error, text |-> "", sequence |-> Undefined,
     timestamp |-> 0]

decryptMessageSequenceFirst(encryptedMessage, secret, expectedSequence, clock) ==
    IF ~IsJSON(encryptedMessage) THEN Rejected(SyntaxError)
    ELSE
    LET parsed     == JSONparse(encryptedMessage)
        ciphertext == atob(parsed.ciphertext)
        iv         == atob(parsed.iv)
    IN  IF expectedSequence # Undefined /\ parsed.sequence # expectedSequence
        THEN Rejected(SequenceError)
        ELSE IF ~subtleDecryptOk(secret, iv, ciphertext) THEN Rejected(AuthError)
        ELSE Resolved(JSONparse(ciphertext.data))

decryptMessageNoSequence(encryptedMessage, secret, expectedSequence, clock) ==
    IF ~IsJSON(encryptedMessage) THEN Rejected(SyntaxError)
    ELSE
    LET parsed     == JSONparse(encryptedMessage)
        ciphertext == atob(parsed.ciphertext)
        iv         == atob(parsed.iv)
    IN  IF ~subtleDecryptOk(secret, iv, ciphertext) THEN Rejected(AuthError)
        ELSE
        LET payload == JSONparse(ciphertext.data)
            age     == clock - payload.timestamp
        IN  IF age > FreshnessMs THEN Rejected(StaleError)
            ELSE Resolved(payload)

decryptMessageAgeInclusive(encryptedMessage, secret, expectedSequence, clock) ==
    IF ~IsJSON(encryptedMessage) THEN Rejected(SyntaxError)
    ELSE
    LET parsed     == JSONparse(encryptedMessage)
        ciphertext == atob(parsed.ciphertext)
        iv         == atob(parsed.iv)
    IN  IF ~subtleDecryptOk(secret, iv, ciphertext) THEN Rejected(AuthError)
        ELSE
        LET payload == JSONparse(ciphertext.data)
            age     == clock - payload.timestamp
        IN  IF expectedSequence # Undefined /\ payload.sequence # expectedSequence
            THEN Rejected(SequenceError)
            ELSE IF age >= FreshnessMs THEN Rejected(StaleError)
            ELSE Resolved(payload)

\* decryptMessage(encryptedMessage, sharedSecret, expectedSequence?)
decryptMessage(encryptedMessage, secret, expectedSequence, clock) ==
    IF ~IsJSON(encryptedMessage) THEN Rejected(SyntaxError)
    ELSE
    LET parsed     == JSONparse(encryptedMessage)
        ciphertext == atob(parsed.ciphertext)
        iv         == atob(parsed.iv)
    IN  IF ~subtleDecryptOk(secret, iv, ciphertext) THEN Rejected(AuthError)
        ELSE
        LET payload == JSONparse(ciphertext.data)
            age     == clock - payload.timestamp
        IN  IF expectedSequence # Undefined /\ payload.sequence # expectedSequence
            THEN Rejected(SequenceError)
            ELSE IF age > FreshnessMs THEN Rejected(StaleError)
            ELSE Resolved(payload)

----------------------------------------------------------------------------
(* The clock *)

\* Date.now() advances
Tick(step) ==
    /\ ticks < MaxTicks
    /\ now' = now + step
    /\ ticks' = ticks + 1

----------------------------------------------------------------------------
(* SecureFramer on its own: one encryptMessage call, a tamperer on the     *)
(* wire, the clock, and decryptMessage calls against any expected sequence *)

PrivKeys == 1..MaxPriv

\* secrets two devices can derive
Secrets == {generateSharedSecret(a, getPublicKey(1)) : a \in 1..2}

ExpectedChoices == (0..(MaxSeq + 1)) \cup {Undefined}

\* what is changed of a frame in transit
TamperedFields == {"ciphertext", "iv", "timestamp", "sequence"}

NoFrame == <<"none", 0>>

NoCall == [called |-> FALSE, key |-> HKDF(0), expected |-> Undefined,
           at |-> 0, res |-> Rejected("")]

InitFramerVars ==
    /\ fin \in [m : Texts, s : Secrets, n : 0..MaxSeq]
    /\ orig = NoFrame
    /\ wire = NoFrame
    /\ dec = NoCall

\* encryptMessage(fin.m, fin.s, fin.n)
FEncrypt ==
    /\ orig = NoFrame
    /\ orig' = encryptMessage(fin.m, fin.s, fin.n, now, FreshIv(0, 1))
    /\ wire' = orig'
    /\ UNCHANGED <<fin, dec, clockVars, sessionVars>>

\* in transit one bit of the ciphertext bytes or of the iv bytes changes,
\* the unauthenticated outer timestamp is rewritten to the current time, or
\* the unauthenticated outer sequence is rewritten to the next number or back
FTamper(fieldName, bit) ==
    /\ wire # NoFrame
    /\ ~dec.called
    /\ LET parsed == JSONparse(wire)
       IN  wire' = JSONstringify(
               CASE fieldName = "ciphertext" ->
                      [parsed EXCEPT !.ciphertext = btoa(FlipBit(atob(@), bit))]
                 [] fieldName = "iv" ->
                      [parsed EXCEPT !.iv = btoa(FlipBit(atob(@), bit))]
                 [] fieldName = "timestamp" ->
                      [parsed EXCEPT !.timestamp = now]
                 [] fieldName = "sequence" ->
                      [parsed EXCEPT !.sequence = IF @ = fin.n THEN fin.n + 1
                                                  ELSE fin.n])
    /\ wire' # wire
    /\ UNCHANGED <<fin, orig, dec, clockVars, sessionVars>>

\* decryptMessage(wire, key, expected)
FDecrypt(key, expected) ==
    /\ wire # NoFrame
    /\ dec' = [called |-> TRUE, key |-> key, expected |-> expected, at |-> now,
               res |-> decryptMessage(wire, key, expected, now)]
    /\ UNCHANGED <<fin, orig, wire, clockVars, sessionVars>>

\* time passes between encryption and decryption
FTick(step) ==
    /\ ~dec.called
    /\ Tick(step)
    /\ UNCHANGED <<framerVars, sessionVars>>

----------------------------------------------------------------------------
(* The two browsers: Chat key setup, the useWebRTC hook, the data channel  *)

NoSecret == HKDF(0)                 \* sharedSecret state while null

NoTransport == [created |-> FALSE, initiator |-> FALSE, secret |-> NoSecret,
                established |-> FALSE, closed |-> FALSE]

NoClosure == [peerPublicKey |-> EmptyKeyText, expectedIncomingSequence |-> 0]

InitClock == now = 0 /\ ticks = 0

InitHook ==
    /\ phase = [p \in Parties |-> "idle"]
    /\ peer = [p \in Parties |-> FALSE]
    /\ connected = [p \in Parties |-> FALSE]
    /\ messages = [p \in Parties |-> <<>>]
    /\ sharedSecret = [p \in Parties |-> NoSecret]
    /\ sequenceNumber = [p \in Parties |-> 0]
    /\ expectedIncomingSequence = [p \in Parties |-> 0]
    /\ closure = [p \in Parties |-> NoClosure]
    /\ transport = [p \in Parties |-> NoTransport]
    /\ pending = [p \in Parties |-> <<>>]

InitWire ==
    /\ net = [p \in Parties |-> <<>>]
    /\ handled = [p \in Parties |-> 0]
    /\ inOrder = [p \in Parties |-> TRUE]
    /\ lastData = [p \in Parties |-> Rejected("")]

\* first run of the Chat page: nothing in local storage, no key published
InitKeysAbsent ==
    /\ storedKeys = [p \in Parties |-> NoKeys]
    /\ profileKey = [p \in Parties |-> EmptyKeyText]
    /\ keysReady = [p \in Parties |-> FALSE]

\* both Chat pages have completed initializeKeys
InitKeysReady ==
    /\ storedKeys = [p \in Parties |-> generateKeyPair(p + 1)]
    /\ profileKey = [p \in Parties |-> publicKeyToBase64(storedKeys[p].publicKey)]
    /\ keysReady = [p \in Parties |-> TRUE]

FramerIdle ==
    /\ fin = [m |-> "hello", s |-> generateSharedSecret(1, getPublicKey(1)), n |-> 0]
    /\ orig = NoFrame
    /\ wire = NoFrame
    /\ dec = NoCall

\* supabase.from('profiles').update({ public_key: pubKey }).eq('user_id', id)
profilesUpdate(id, pubKey) == [user_id |-> id, set |-> [public_key |-> pubKey]]

initializeKeysPublishesPrivate(p, privateKey) ==
    /\ ~keysReady[p]
    /\ LET keys == storedKeys[p]
       IN  IF keys = NoKeys
           THEN LET newKeys == generateKeyPair(privateKey)
                    pubKey  == publicKeyToBase64(newKeys.privateKey)
                IN  /\ storedKeys' = [storedKeys EXCEPT ![p] = newKeys]
                    /\ profileKey' = [profileKey EXCEPT ![p] = pubKey]
                    /\ updates' = updates \cup {profilesUpdate(uid[p], pubKey)}
           ELSE LET pubKey == publicKeyToBase64(keys.publicKey)
                IN  /\ profileKey' = [profileKey EXCEPT ![p] = pubKey]
                    /\ updates' = updates \cup {profilesUpdate(uid[p], pubKey)}
                    /\ UNCHANGED storedKeys
    /\ keysReady' = [keysReady EXCEPT ![p] = TRUE]
    /\ UNCHANGED <<clockVars, uid, hookVars, wireVars, framerVars, serveVars,
                   relay, lifeVars, orderVars>>

\* Chat.initializeKeys: load or generate and store, then publish the public key
initializeKeys(p, privateKey) ==
    /\ ~keysReady[p]
    /\ LET keys == storedKeys[p]
       IN  IF keys = NoKeys
           THEN LET newKeys == generateKeyPair(privateKey)
                    pubKey  == publicKeyToBase64(newKeys.publicKey)
                IN  /\ storedKeys' = [storedKeys EXCEPT ![p] = newKeys]
                    /\ profileKey' = [profileKey EXCEPT ![p] = pubKey]
                    /\ updates' = updates \cup {profilesUpdate(uid[p], pubKey)}
           ELSE LET pubKey == publicKeyToBase64(keys.publicKey)
                IN  /\ profileKey' = [profileKey EXCEPT ![p] = pubKey]
                    /\ updates' = updates \cup {profilesUpdate(uid[p], pubKey)}
                    /\ UNCHANGED storedKeys
    /\ keysReady' = [keysReady EXCEPT ![p] = TRUE]
    /\ UNCHANGED <<clockVars, uid, hookVars, wireVars, framerVars, serveVars,
                   relay, lifeVars, orderVars>>

\* a < b on JavaScript strings: by code unit, a proper prefix is lower
RECURSIVE JSLess(_, _)
JSLess(a, b) ==
    IF b = <<>> THEN FALSE
    ELSE IF a = <<>> THEN TRUE
    ELSE IF Head(a) < Head(b) THEN TRUE
    ELSE IF Head(a) > Head(b) THEN FALSE
    ELSE JSLess(Tail(a), Tail(b))

isInitiatorByLength(userId, peerId) == Len(userId) < Len(peerId)

\* const isInitiator = user.id < peerId
isInitiator(userId, peerId) == JSLess(userId, peerId)

\* the peer is selected: MessageInterface mounts, the effect runs and calls
\* initPeer, which suspends at await getKeys()
StartSession(p) ==
    /\ keysReady[p]
    /\ phase[p] = "idle"
    /\ phase' = [phase EXCEPT ![p] = "initPeer"]
    /\ closure' = [closure EXCEPT ![p] =
                      [peerPublicKey |-> profileKey[Other(p)],
                       expectedIncomingSequence |-> expectedIncomingSequence[p]]]
    /\ UNCHANGED <<clockVars, uid, keyVars, peer, connected, messages,
                   sharedSecret, sequenceNumber, expectedIncomingSequence,
                   transport, pending, wireVars, framerVars, restVars>>

\* initPeer resumes: keys, secret, transport, handlers, subscription
initPeerResume(p) ==
    /\ phase[p] = "initPeer"
    /\ LET keys       == storedKeys[p]
           peerPubKey == base64ToPublicKey(closure[p].peerPublicKey)
       IN  IF keys = NoKeys
           THEN /\ phase' = [phase EXCEPT ![p] = "nokeys"]
                /\ UNCHANGED <<sharedSecret, transport, peer>>
           ELSE IF ~ValidPublicKey(peerPubKey)
           THEN /\ phase' = [phase EXCEPT ![p] = "threw"]
                /\ UNCHANGED <<sharedSecret, transport, peer>>
           ELSE LET secret == generateSharedSecret(keys.privateKey, peerPubKey)
                IN  /\ sharedSecret' = [sharedSecret EXCEPT ![p] = secret]
                    /\ transport' = [transport EXCEPT ![p] =
                           [created |-> TRUE,
                            initiator |-> isInitiator(uid[p], uid[Other(p)]),
                            secret |-> secret,
                            established |-> FALSE, closed |-> FALSE]]
                    /\ peer' = [peer EXCEPT ![p] = TRUE]
                    /\ phase' = [phase EXCEPT ![p] = "ready"]
    /\ UNCHANGED <<clockVars, uid, keyVars, connected, messages, sequenceNumber,
                   expectedIncomingSequence, closure, pending, wireVars,
                   framerVars, restVars>>

Open(t) == t.created /\ t.established /\ ~t.closed

\* peerConnection.on('connect'): the offer/answer exchange between one
\* initiator and one responder has completed
OnConnect(p) ==
    /\ transport[p].created /\ ~transport[p].established /\ ~transport[p].closed
    /\ transport[Other(p)].created /\ ~transport[Other(p)].closed
    /\ transport[p].initiator # transport[Other(p)].initiator
    /\ transport' = [transport EXCEPT ![p].established = TRUE]
    /\ connected' = [connected EXCEPT ![p] = TRUE]
    /\ UNCHANGED <<clockVars, uid, keyVars, phase, peer, messages, sharedSecret,
                   sequenceNumber, expectedIncomingSequence, closure, pending,
                   wireVars, framerVars, restVars>>

\* peerConnection.on('close') / on('error')
OnClose(p) ==
    /\ transport[p].created /\ ~transport[p].closed
    /\ transport' = [transport EXCEPT ![p].closed = TRUE]
    /\ connected' = [connected EXCEPT ![p] = FALSE]
    /\ UNCHANGED <<clockVars, uid, keyVars, phase, peer, messages, sharedSecret,
                   sequenceNumber, expectedIncomingSequence, closure, pending,
                   wireVars, framerVars, restVars>>

\* calls of sendMessage that passed its guard
Begun(p) == Len(pending[p]) + Len(net[Other(p)])

\* sendMessage up to its await: the guard, then encryptMessage reads the
\* sequenceNumber of the render and the clock
SendBegin(p, text) ==
    /\ peer[p] /\ connected[p] /\ sharedSecret[p] # NoSecret
    /\ Begun(1) + Begun(2) < MaxSends
    /\ pending' = [pending EXCEPT ![p] = Append(@,
           [text |-> text,
            encrypted |-> encryptMessage(text, sharedSecret[p], sequenceNumber[p],
                                         now, FreshIv(p, Begun(p) + 1))])]
    /\ UNCHANGED <<clockVars, uid, keyVars, phase, peer, connected, messages,
                   sharedSecret, sequenceNumber, expectedIncomingSequence,
                   closure, transport, wireVars, framerVars, restVars>>

\* sendMessage after its await: peer.send, the counter, the local echo;
\* peer.send throws on a transport that is not open and the catch logs it
SendFinish(p) ==
    /\ pending[p] # <<>>
    /\ LET call    == Head(pending[p])
           message == [id |-> <<p, Len(net[Other(p)]) + 1>>,
                       text |-> call.encrypted, timestamp |-> now]
       IN  IF Open(transport[p])
           THEN /\ net' = [net EXCEPT ![Other(p)] = Append(@, JSONstringify(message))]
                /\ sequenceNumber' = [sequenceNumber EXCEPT ![p] = @ + 1]
                /\ messages' = [messages EXCEPT ![p] = Append(@,
                       [id |-> message.id, text |-> call.text, sender |-> uid[p],
                        timestamp |-> message.timestamp, encrypted |-> TRUE])]
           ELSE UNCHANGED <<net, sequenceNumber, messages>>
    /\ pending' = [pending EXCEPT ![p] = Tail(@)]
    /\ UNCHANGED <<clockVars, uid, keyVars, phase, peer, connected, sharedSecret,
                   expectedIncomingSequence, closure, transport, handled,
                   inOrder, lastData, framerVars, restVars>>

\* what the transport hands to the 'data' handler for envelope data
TamperKinds == {"none", "ciphertext", "iv", "sequence", "garbage"}

Tampered(data, kind) ==
    LET envelope == JSONparse(data)
        frame    == JSONparse(envelope.text)
        with(f)  == JSONstringify([envelope EXCEPT !.text = JSONstringify(f)])
    IN  CASE kind = "none"       -> data
          [] kind = "ciphertext" -> with([frame EXCEPT !.ciphertext = btoa(FlipBit(atob(@), 1))])
          [] kind = "iv"         -> with([frame EXCEPT !.iv = btoa(FlipBit(atob(@), 1))])
          [] kind = "sequence"   -> with([frame EXCEPT !.sequence = @ + 1])
          [] kind = "garbage"    -> Garbage

\* the decryptMessage call of the 'data' handler and its outcome
DataOutcome(p, data) ==
    IF ~IsJSON(data) THEN Rejected(SyntaxError)
    ELSE decryptMessage(JSONparse(data).text, transport[p].secret,
                        closure[p].expectedIncomingSequence, now)

onDataDisconnects(p, data) ==
    LET decrypted == DataOutcome(p, data)
    IN  IF decrypted.ok
        THEN /\ expectedIncomingSequence' = [expectedIncomingSequence EXCEPT ![p] = @ + 1]
             /\ messages' = [messages EXCEPT ![p] = Append(@,
                    [id |-> JSONparse(data).id, text |-> decrypted.text,
                     sender |-> uid[Other(p)], timestamp |-> decrypted.timestamp,
                     encrypted |-> TRUE])]
             /\ UNCHANGED connected
        ELSE /\ connected' = [connected EXCEPT ![p] = FALSE]
             /\ UNCHANGED <<expectedIncomingSequence, messages>>

\* peerConnection.on('data', ...): try { parse, decrypt, count, append }
\* catch { log }
onData(p, data) ==
    LET decrypted == DataOutcome(p, data)
    IN  /\ UNCHANGED connected
        /\ IF decrypted.ok
           THEN /\ expectedIncomingSequence' = [expectedIncomingSequence EXCEPT ![p] = @ + 1]
                /\ messages' = [messages EXCEPT ![p] = Append(@,
                       [id |-> JSONparse(data).id, text |-> decrypted.text,
                        sender |-> uid[Other(p)], timestamp |-> decrypted.timestamp,
                        encrypted |-> TRUE])]
           ELSE UNCHANGED <<expectedIncomingSequence, messages>>

\* the inner, authenticated payload of a transmitted envelope
InnerPayload(data) ==
    JSONparse(atob(JSONparse(JSONparse(data).text).ciphertext).data)

\* the transport delivers the i-th envelope sent to p, as is or modified
Deliver(p, i, kind) ==
    /\ Open(transport[p])
    /\ handled[1] + handled[2] < MaxDeliveries
    /\ i \in 1..Len(net[p])
    /\ LET data == Tampered(net[p][i], kind)
       IN  /\ onData(p, data)
           /\ lastData' = [lastData EXCEPT ![p] = DataOutcome(p, data)]
           /\ inOrder' = [inOrder EXCEPT ![p] =
                  /\ @
                  /\ i = handled[p] + 1
                  /\ kind = "none"
                  /\ now - InnerPayload(net[p][i]).timestamp <= FreshnessMs]
    /\ handled' = [handled EXCEPT ![p] = @ + 1]
    /\ UNCHANGED <<clockVars, uid, keyVars, phase, peer, sharedSecret,
                   sequenceNumber, closure, transport, pending, net, framerVars, restVars>>

SessionTick(step) ==
    /\ Tick(step)
    /\ UNCHANGED <<sessionVars, framerVars>>

----------------------------------------------------------------------------
(* The signaling validator (edge function)                                 *)

UserId(n) == <<n>>          \* the id of user n
EmptyString == <<>>         \* '' : falsy, like a missing field

AuthUsers == {UserId(1), UserId(2), UserId(3)}      \* accounts of the auth service

SignalTypes == {"offer", "answer", "ice-candidate"}

NoHeader == [scheme |-> "", token |-> EmptyString]
Bearer(token) == [scheme |-> "Bearer ", token |-> token]

\* supabase.auth.getUser(token): the user the token belongs to, or none
NoUser == [id |-> EmptyString]
getUser(token) == IF token \in AuthUsers THEN [id |-> token] ELSE NoUser

Response(status, body) == [status |-> status, body |-> body]
NullBody == [null |-> TRUE]
ErrorResponse(status, error) == Response(status, [error |-> error])

\* supabase.from('profiles').select(...).eq('user_id', id).single()
NoRow == [user_id |-> EmptyString, online_status |-> FALSE]
selectProfile(table, id) ==
    IF id \in DOMAIN table /\ table[id] # "absent"
    THEN [user_id |-> id, online_status |-> table[id] = "online"]
    ELSE NoRow

serveSenderFirst(req, table) ==
    IF req.method = "OPTIONS" THEN Response(200, NullBody)
    ELSE IF req.method # "POST" THEN ErrorResponse(405, "Method not allowed")
    ELSE IF req.authorization.scheme # "Bearer "
    THEN ErrorResponse(401, "Missing or invalid authorization header")
    ELSE
    LET user == getUser(req.authorization.token)
    IN  IF user = NoUser THEN ErrorResponse(401, "Unauthorized")
        ELSE IF ~IsJSON(req.body) THEN ErrorResponse(500, SyntaxError)
        ELSE
        LET message == JSONparse(req.body)
        IN  IF message.from # user.id
            THEN ErrorResponse(403, "Sender ID mismatch")
            ELSE IF \/ message.type = "" \/ message.from = EmptyString
                    \/ message.to = EmptyString \/ message.payload = EmptyString
            THEN ErrorResponse(400, "Invalid message format")
            ELSE IF message.type \notin SignalTypes
            THEN ErrorResponse(400, "Invalid message type")
            ELSE
            LET recipientProfile == selectProfile(table, message.to)
            IN  IF recipientProfile = NoRow
                THEN ErrorResponse(404, "Recipient not found")
                ELSE Response(200, [success |-> TRUE,
                                    message |-> "Signal received and validated",
                                    recipientOnline |-> recipientProfile.online_status])

\* serve(async (req) => ...): the response to one request, given the profiles table
serve(req, table) ==
    IF req.method = "OPTIONS" THEN Response(200, NullBody)
    ELSE IF req.method # "POST" THEN ErrorResponse(405, "Method not allowed")
    ELSE IF req.authorization.scheme # "Bearer "
    THEN ErrorResponse(401, "Missing or invalid authorization header")
    ELSE
    LET user == getUser(req.authorization.token)
    IN  IF user = NoUser THEN ErrorResponse(401, "Unauthorized")
        ELSE IF ~IsJSON(req.body) THEN ErrorResponse(500, SyntaxError)
        ELSE
        LET message == JSONparse(req.body)
        IN  IF \/ message.type = "" \/ message.from = EmptyString
               \/ message.to = EmptyString \/ message.payload = EmptyString
            THEN ErrorResponse(400, "Invalid message format")
            ELSE IF message.from # user.id
            THEN ErrorResponse(403, "Sender ID mismatch")
            ELSE IF message.type \notin SignalTypes
            THEN ErrorResponse(400, "Invalid message type")
            ELSE
            LET recipientProfile == selectProfile(table, message.to)
            IN  IF recipientProfile = NoRow
                THEN ErrorResponse(404, "Recipient not found")
                ELSE Response(200, [success |-> TRUE,
                                    message |-> "Signal received and validated",
                                    recipientOnline |-> recipientProfile.online_status])

\* what a transport hands to its 'signal' handler
SignalData(type, n) == <<"signal", type, n>>

\* request bodies put to the validator
ServeBodies ==
    {Garbage} \cup
    {JSONstringify([type |-> t, from |-> f, to |-> r, payload |-> d]) :
        t \in {"offer", "bogus", ""},
        f \in {UserId(1), UserId(2), EmptyString},
        r \in {UserId(2), UserId(3), UserId(4), EmptyString},
        d \in {SignalData("offer", 1), EmptyString}}

ServeRequests ==
    [method : {"POST", "OPTIONS", "GET"},
     authorization : {NoHeader, Bearer(UserId(1)), Bearer(UserId(3)), Bearer(UserId(9))},
     body : ServeBodies]

\* profiles tables the validator may find: user 4 has no row
ProfileTables ==
    {[id \in AuthUsers |-> IF id = UserId(2) THEN s2 ELSE IF id = UserId(3) THEN s3 ELSE "online"] :
        s2 \in {"online", "offline"}, s3 \in {"online", "absent"}}

NotServed == [called |-> FALSE,
              req |-> [method |-> "", authorization |-> NoHeader, body |-> Garbage],
              res |-> Response(0, NullBody)]

InitServe ==
    /\ profiles = [id \in AuthUsers |-> "online"]
    /\ served = NotServed

\* nothing has reached the relay or the directory
InitServer ==
    /\ relay = {}
    /\ updates = {}

\* useState initial values of a useWebRTC instance
FreshHook == [peer |-> 0, connected |-> FALSE, messages |-> <<>>,
              sharedSecret |-> NoSecret, sequenceNumber |-> 0,
              expectedIncomingSequence |-> 0]

\* the latest sendMessage call: whether one was made, whether its guard let
\* it through, and a bit that alternates from call to call
NoSend == [called |-> FALSE, passed |-> FALSE, turn |-> 0]

\* no transport has emitted anything; initializeKeys has not run
NoSignals == [emitted |-> {}, fed |-> {}]

\* AuthProvider as mounted, signed out: user null, getSession() pending,
\* nothing queued; `stored` is the session the client holds (0 = none),
\* `closure` what the effect's callbacks closed over, `last` the latest
\* change of the session
InitOrder ==
    /\ negotiation = [p \in Parties |-> NoSignals]
    /\ keyRuns = <<>>
    /\ auth = [stored |-> 0, user |-> 0, getSession |-> "pending",
               events |-> <<>>, timers |-> <<>>, closure |-> [user |-> 0],
               last |-> "none", signIns |-> 0]

\* no peer selected, MessageInterface not rendered
InitLife ==
    /\ selectedPeer = 0
    /\ mountId = 0
    /\ hook = FreshHook
    /\ effects = <<>>
    /\ conns = <<>>
    /\ channelRef = 0
    /\ subs = {}
    /\ lastSend = NoSend

\* one request reaches the validator
ServeRequest(req) ==
    /\ served' = [called |-> TRUE, req |-> req, res |-> serve(req, profiles)]
    /\ UNCHANGED <<profiles, clockVars, uid, keyVars, hookVars, wireVars,
                   framerVars, serverVars, lifeVars, orderVars>>

----------------------------------------------------------------------------
(* One conversation view over its life: user 1 selects peers, switches     *)
(* between them and closes the view; the peers, the relay and the          *)
(* transports are its environment                                          *)

MaxEffects    == 2      \* effect runs of useWebRTC per behaviour
MaxSignals    == 1      \* 'signal' events per transport
MaxTranscript == 1      \* entries of the transcript

ViewerId  == <<2, 1>>               \* user 1's id: above user 2's, below user 3's
LifePeers == {2, 3}                 \* the users listed as online

KeylessPeer == 4                    \* a listed user that has published no key

\* the public key the user list hands over for user q:
\* profile.public_key || ''
PeerKeyText(q) ==
    IF q = KeylessPeer THEN EmptyKeyText
    ELSE publicKeyToBase64(getPublicKey(q))

outsideLife == <<clockVars, keyVars, hookVars, wireVars, framerVars, serveVars,
                 updates, orderVars>>

\* the instance that ran effect e is still mounted
Live(e) == selectedPeer # 0 /\ effects[e].mount = mountId

\* peer.send works: connected and not destroyed
Usable(t) == t.established /\ ~t.destroyed

\* the effect's cleanup, run for the latest effect run: peer?.destroy() on
\* the peer state that run closed over, channelRef.current?.unsubscribe()
Cleanup ==
    LET e == Len(effects)
    IN  /\ conns' = [c \in 1..Len(conns) |->
               IF c = effects[e].peer THEN [conns[c] EXCEPT !.destroyed = TRUE]
               ELSE conns[c]]
        /\ subs' = subs \ {channelRef}

\* the cleanup destroys a transport that was not destroyed yet, whose
\* 'close' handler then runs (setConnected(false)) before any other event
CleanupCloses ==
    LET c == effects[Len(effects)].peer
    IN  c # 0 /\ ~conns[c].destroyed

\* Chat.handleSelectUser: the view mounts, or its props change; the effect
\* of the previous render is cleaned up and the effect runs, calling
\* initPeer, which suspends at await getKeys()
handleSelectUser(q) ==
    /\ keysReady[1]
    /\ q # selectedPeer
    /\ Len(effects) < MaxEffects
    /\ selectedPeer' = q
    /\ mountId' = IF selectedPeer = 0 THEN mountId + 1 ELSE mountId
    /\ IF selectedPeer = 0 THEN UNCHANGED <<conns, subs>> ELSE Cleanup
    /\ effects' = Append(
           [e \in 1..Len(effects) |->
               IF e = Len(effects) /\ selectedPeer # 0
               THEN [effects[e] EXCEPT !.cleaned = effects[e].stage]
               ELSE effects[e]],
           [mount |-> mountId', peerId |-> q, peerPublicKey |-> PeerKeyText(q),
            peer |-> hook.peer,
            expectedIncomingSequence |-> hook.expectedIncomingSequence,
            stage |-> "getKeys", cleaned |-> "no"])
    /\ hook' = IF selectedPeer # 0 /\ CleanupCloses
               THEN [hook EXCEPT !.connected = FALSE]
               ELSE hook
    /\ UNCHANGED <<uid, channelRef, lastSend, relay, outsideLife>>

\* the first selection: MessageInterface mounts
mountView(q) ==
    /\ selectedPeer = 0
    /\ handleSelectUser(q)

\* MessageInterface onClose: setSelectedPeer(null); the view unmounts, the
\* cleanup runs and the instance's state and ref are gone
closeView ==
    /\ selectedPeer # 0
    /\ selectedPeer' = 0
    /\ Cleanup
    /\ effects' = [effects EXCEPT ![Len(effects)].cleaned = effects[Len(effects)].stage]
    /\ hook' = FreshHook
    /\ channelRef' = 0
    /\ UNCHANGED <<uid, mountId, lastSend, relay, outsideLife>>

\* initPeer of effect run e resumes after its awaits: secret, transport,
\* handlers, setPeer, subscription, channelRef; state setters of an
\* unmounted instance do nothing
initPeer(e) ==
    /\ e \in 1..Len(effects)
    /\ effects[e].stage = "getKeys"
    /\ LET keys       == storedKeys[1]
           peerPubKey == base64ToPublicKey(effects[e].peerPublicKey)
       IN  IF keys = NoKeys
           THEN /\ effects' = [effects EXCEPT ![e].stage = "nokeys"]
                /\ UNCHANGED <<hook, conns, subs, channelRef>>
           ELSE IF ~ValidPublicKey(peerPubKey)
           THEN /\ effects' = [effects EXCEPT ![e].stage = "threw"]
                /\ UNCHANGED <<hook, conns, subs, channelRef>>
           ELSE LET secret == generateSharedSecret(keys.privateKey, peerPubKey)
                    peerConnection ==
                        [effect |-> e, secret |-> secret,
                         initiator |-> isInitiator(uid[1], UserId(effects[e].peerId)),
                         expected |-> effects[e].expectedIncomingSequence,
                         established |-> FALSE, destroyed |-> FALSE,
                         signalled |-> 0, fed |-> {},
                         sent |-> <<>>]
                IN  /\ conns' = Append(conns, peerConnection)
                    /\ hook' = IF Live(e)
                               THEN [hook EXCEPT !.sharedSecret = secret,
                                                 !.peer = Len(conns) + 1]
                               ELSE hook
                    /\ subs' = subs \cup {e}
                    /\ channelRef' = IF Live(e) THEN e ELSE channelRef
                    /\ effects' = [effects EXCEPT ![e].stage = "done"]
    /\ UNCHANGED <<uid, selectedPeer, mountId, lastSend, relay, outsideLife>>

\* peerConnection.on('signal'): the transport has an offer, an answer or a
\* candidate; the handler broadcasts it on signaling:${user.id}
onSignal(c) ==
    /\ c \in 1..Len(conns)
    /\ ~conns[c].destroyed
    /\ conns[c].signalled < MaxSignals
    /\ conns[c].initiator \/ conns[c].fed # {}
    /\ LET type == IF conns[c].signalled > 0 THEN "ice-candidate"
                   ELSE IF conns[c].initiator THEN "offer" ELSE "answer"
           message == [type |-> type, from |-> uid[1],
                       to |-> UserId(effects[conns[c].effect].peerId),
                       payload |-> SignalData(type, c)]
       IN  relay' = relay \cup {[channel |-> uid[1], sender |-> uid[1],
                                 message |-> message]}
    /\ conns' = [conns EXCEPT ![c].signalled = @ + 1]
    /\ UNCHANGED <<uid, selectedPeer, mountId, hook, effects, channelRef, subs,
                   lastSend, outsideLife>>

\* what other clients hand the relay: on user 2's channel, user 2 a signal
\* for user 1 and one for somebody else, and user 3 a signal for user 1
\* under user 2's id; on user 1's channel, a signal for user 1 from a client
\* that names the channel by the recipient
RemoteBroadcasts ==
    {[channel |-> UserId(2), sender |-> UserId(2),
      message |-> [type |-> "offer", from |-> UserId(2), to |-> r,
                   payload |-> SignalData("offer", 2)]] : r \in {uid[1], UserId(4)}}
    \cup
    {[channel |-> UserId(2), sender |-> UserId(3),
      message |-> [type |-> "offer", from |-> UserId(2), to |-> uid[1],
                   payload |-> SignalData("offer", 3)]]}
    \cup
    {[channel |-> uid[1], sender |-> UserId(2),
      message |-> [type |-> "offer", from |-> UserId(2), to |-> uid[1],
                   payload |-> SignalData("offer", 2)]]}

onBroadcastUnfiltered(b) ==
    /\ \E e \in subs : b.channel = UserId(effects[e].peerId)
    /\ conns' = [c \in 1..Len(conns) |->
           IF /\ conns[c].effect \in subs
              /\ b.channel = UserId(effects[conns[c].effect].peerId)
              /\ ~conns[c].destroyed
           THEN [conns[c] EXCEPT !.fed = @ \cup {b}]
           ELSE conns[c]]
    /\ UNCHANGED <<uid, selectedPeer, mountId, hook, effects, channelRef, subs,
                   lastSend, relay, outsideLife>>

onBroadcastOwnChannel(b) ==
    /\ subs # {}
    /\ b.channel = uid[1]
    /\ conns' = [c \in 1..Len(conns) |->
           IF /\ conns[c].effect \in subs
              /\ b.message.to = uid[1]
              /\ ~conns[c].destroyed
           THEN [conns[c] EXCEPT !.fed = @ \cup {b}]
           ELSE conns[c]]
    /\ UNCHANGED <<uid, selectedPeer, mountId, hook, effects, channelRef, subs,
                   lastSend, relay, outsideLife>>

\* another client calls supabase.channel(name).send(...) with broadcast b;
\* the relay hands it to the live subscriptions to that channel, whose
\* handler feeds it to its transport if it is addressed to this user
\* (signal() on a destroyed transport throws)
onBroadcast(b) ==
    /\ \E e \in subs : b.channel = UserId(effects[e].peerId)
    /\ conns' = [c \in 1..Len(conns) |->
           IF /\ conns[c].effect \in subs
              /\ b.channel = UserId(effects[conns[c].effect].peerId)
              /\ b.message.to = uid[1]
              /\ ~conns[c].destroyed
           THEN [conns[c] EXCEPT !.fed = @ \cup {b}]
           ELSE conns[c]]
    /\ UNCHANGED <<uid, selectedPeer, mountId, hook, effects, channelRef, subs,
                   lastSend, relay, outsideLife>>

\* peerConnection.on('connect') of transport c: the transport reports the
\* channel established, its negotiation with the peer not being modelled
onConnect(c) ==
    /\ c \in 1..Len(conns)
    /\ ~conns[c].established /\ ~conns[c].destroyed
    /\ conns' = [conns EXCEPT ![c].established = TRUE]
    /\ hook' = IF Live(conns[c].effect) THEN [hook EXCEPT !.connected = TRUE]
               ELSE hook
    /\ UNCHANGED <<uid, selectedPeer, mountId, effects, channelRef, subs,
                   lastSend, relay, outsideLife>>

onCloseOrErrorRetries(c) ==
    /\ c \in 1..Len(conns)
    /\ ~conns[c].destroyed
    /\ conns' = [conns EXCEPT ![c].destroyed = TRUE]
    /\ hook' = IF Live(conns[c].effect) THEN [hook EXCEPT !.connected = FALSE]
               ELSE hook
    /\ effects' = [effects EXCEPT ![conns[c].effect].stage = "getKeys"]
    /\ UNCHANGED <<uid, selectedPeer, mountId, channelRef, subs,
                   lastSend, relay, outsideLife>>

\* the transport c fails or is closed by the other side: it is destroyed
\* and peerConnection.on('error') / on('close') run
onCloseOrError(c) ==
    /\ c \in 1..Len(conns)
    /\ ~conns[c].destroyed
    /\ conns' = [conns EXCEPT ![c].destroyed = TRUE]
    /\ hook' = IF Live(conns[c].effect) THEN [hook EXCEPT !.connected = FALSE]
               ELSE hook
    /\ UNCHANGED <<uid, selectedPeer, mountId, effects, channelRef, subs,
                   lastSend, relay, outsideLife>>

\* the envelope carrying the peer's frame number k, as its sendMessage
\* builds it
PeerEnvelope(q, secret, k) ==
    JSONstringify([id |-> <<q, k>>,
                   text |-> encryptMessage("hello", secret, k, now, FreshIv(q, k + 1)),
                   timestamp |-> now])

\* peerConnection.on('data') of transport c: the frame is checked against
\* the expectedIncomingSequence the effect run closed over
onDataOf(c, k) ==
    /\ c \in 1..Len(conns)
    /\ Usable(conns[c])
    /\ Len(hook.messages) < MaxTranscript
    /\ LET e            == conns[c].effect
           data         == PeerEnvelope(effects[e].peerId, conns[c].secret, k)
           encryptedMsg == JSONparse(data)
           decrypted    == decryptMessage(encryptedMsg.text, conns[c].secret,
                                          conns[c].expected, now)
       IN  hook' = IF decrypted.ok /\ Live(e)
                   THEN [hook EXCEPT
                            !.expectedIncomingSequence = @ + 1,
                            !.messages = Append(@,
                                [id |-> encryptedMsg.id, text |-> decrypted.text,
                                 sender |-> UserId(effects[e].peerId),
                                 timestamp |-> decrypted.timestamp,
                                 encrypted |-> TRUE])]
                   ELSE hook
    /\ UNCHANGED <<uid, selectedPeer, mountId, effects, conns, channelRef, subs,
                   lastSend, relay, outsideLife>>

\* frames user 1 has transmitted so far, over all its transports
RECURSIVE TotalSent(_)
TotalSent(n) == IF n = 0 THEN 0 ELSE Len(conns[n].sent) + TotalSent(n - 1)

sendMessageEchoFirst(text) ==
    /\ selectedPeer # 0
    /\ Len(hook.messages) < MaxTranscript
    /\ LET passed == hook.peer # 0 /\ hook.connected /\ hook.sharedSecret # NoSecret
           entry  == [id |-> <<1, TotalSent(Len(conns)) + 1>>, text |-> text,
                      sender |-> uid[1], timestamp |-> now, encrypted |-> TRUE]
       IN  /\ lastSend' = [called |-> TRUE, passed |-> passed,
                            turn |-> 1 - lastSend.turn]
           /\ hook' = [hook EXCEPT !.messages = Append(@, entry)]
           /\ UNCHANGED conns
    /\ UNCHANGED <<uid, selectedPeer, mountId, effects, channelRef, subs, relay,
                   outsideLife>>

\* sendMessage(text) of the mounted instance: the guard, encryptMessage,
\* peer.send (which throws unless the transport is open; the catch logs),
\* the counter, the local echo
sendMessage(text) ==
    /\ selectedPeer # 0
    /\ Len(hook.messages) < MaxTranscript
    /\ LET passed == hook.peer # 0 /\ hook.connected /\ hook.sharedSecret # NoSecret
       IN  /\ lastSend' = [called |-> TRUE, passed |-> passed,
                            turn |-> 1 - lastSend.turn]
           /\ IF passed /\ Usable(conns[hook.peer])
              THEN LET encrypted == encryptMessage(text, hook.sharedSecret,
                                        hook.sequenceNumber, now,
                                        FreshIv(1, TotalSent(Len(conns)) + 1))
                       message   == [id |-> <<1, TotalSent(Len(conns)) + 1>>,
                                     text |-> encrypted, timestamp |-> now]
                   IN  /\ conns' = [conns EXCEPT ![hook.peer].sent =
                                       Append(@, JSONstringify(message))]
                       /\ hook' = [hook EXCEPT
                              !.sequenceNumber = @ + 1,
                              !.messages = Append(@,
                                  [id |-> message.id, text |-> text,
                                   sender |-> uid[1],
                                   timestamp |-> message.timestamp,
                                   encrypted |-> TRUE])]
              ELSE UNCHANGED <<hook, conns>>
    /\ UNCHANGED <<uid, selectedPeer, mountId, effects, channelRef, subs, relay,
                   outsideLife>>

----------------------------------------------------------------------------
(* The signaling exchange between the two browsers: each transport's        *)
(* signals go through the relay to the subscriptions open at that moment    *)

\* p's initPeer has run to its end: its subscription to the other's channel
\* is open and its transport takes signals
Subscribed(p) == phase[p] = "ready" /\ ~transport[p].closed

\* the next signal p's transport has for its 'signal' handler: the initiator
\* its offer, the responder its answer once it was fed the offer, then
\* each a candidate
NextSignal(p) ==
    IF transport[p].initiator
    THEN IF "offer" \in negotiation[p].emitted THEN "ice-candidate" ELSE "offer"
    ELSE IF "answer" \in negotiation[p].emitted THEN "ice-candidate" ELSE "answer"

\* peerConnection.on('signal') of p: the message is broadcast on
\* signaling:${user.id}; the relay hands it to the other party if that is
\* subscribed now, whose handler feeds it to its transport (msg.to === user.id)
emitSignal(p) ==
    /\ transport[p].created /\ ~transport[p].closed
    /\ transport[p].initiator \/ "offer" \in negotiation[p].fed
    /\ NextSignal(p) \notin negotiation[p].emitted
    /\ negotiation' = [q \in Parties |->
           IF q = p
           THEN [negotiation[q] EXCEPT !.emitted = @ \cup {NextSignal(p)}]
           ELSE IF Subscribed(q)
           THEN [negotiation[q] EXCEPT !.fed = @ \cup {NextSignal(p)}]
           ELSE negotiation[q]]
    /\ UNCHANGED <<clockVars, uid, keyVars, hookVars, wireVars, framerVars,
                   serveVars, serverVars, lifeVars, keyRuns, auth>>

\* the transport of p has the other's description and the other has p's
DescriptionsExchanged(p) ==
    IF transport[p].initiator
    THEN "answer" \in negotiation[p].fed
    ELSE /\ "offer" \in negotiation[p].fed
         /\ "answer" \in negotiation[p].emitted
         /\ "answer" \in negotiation[Other(p)].fed

\* peerConnection.on('connect') of p, once offer and answer have reached
\* their transports
onConnectNegotiated(p) ==
    /\ transport[p].created /\ ~transport[p].established /\ ~transport[p].closed
    /\ DescriptionsExchanged(p)
    /\ transport' = [transport EXCEPT ![p].established = TRUE]
    /\ connected' = [connected EXCEPT ![p] = TRUE]
    /\ UNCHANGED <<clockVars, uid, keyVars, phase, peer, messages, sharedSecret,
                   sequenceNumber, expectedIncomingSequence, closure, pending,
                   wireVars, framerVars, restVars>>

----------------------------------------------------------------------------
(* Chat.initializeKeys step by step: the effect runs it again whenever the *)
(* auth provider hands Chat a new user object, while earlier runs are still *)
(* suspended at their awaits                                                *)

MaxRuns == 2            \* runs of initializeKeys per behaviour

\* Chat's effect runs (user is set, or set again): initializeKeys() is
\* called and suspends at await getKeys()
initializeKeysCalled ==
    /\ Len(keyRuns) < MaxRuns
    /\ keyRuns' = Append(keyRuns, [pc |-> "getKeys", pubKey |-> EmptyKeyText])
    /\ UNCHANGED <<clockVars, uid, keyVars, hookVars, wireVars, framerVars,
                   serveVars, serverVars, lifeVars, negotiation, auth>>

\* getKeys() resolves for run r: with no stored pair the run goes on to
\* generate one, otherwise to publish the stored public key
initializeKeysLoaded(r) ==
    /\ r \in 1..Len(keyRuns)
    /\ keyRuns[r].pc = "getKeys"
    /\ keyRuns' = [keyRuns EXCEPT ![r] =
           IF storedKeys[1] = NoKeys
           THEN [pc |-> "generate", pubKey |-> EmptyKeyText]
           ELSE [pc |-> "update",
                 pubKey |-> publicKeyToBase64(storedKeys[1].publicKey)]]
    /\ UNCHANGED <<clockVars, uid, keyVars, hookVars, wireVars, framerVars,
                   serveVars, serverVars, lifeVars, negotiation, auth>>

\* generateKeyPair() and storeKeys(...) of run r: the new pair replaces
\* whatever the storage holds
initializeKeysStored(r, privateKey) ==
    /\ r \in 1..Len(keyRuns)
    /\ keyRuns[r].pc = "generate"
    /\ LET newKeys == generateKeyPair(privateKey)
       IN  /\ storedKeys' = [storedKeys EXCEPT ![1] = newKeys]
           /\ keyRuns' = [keyRuns EXCEPT ![r] =
                  [pc |-> "update",
                   pubKey |-> publicKeyToBase64(newKeys.publicKey)]]
    /\ UNCHANGED <<clockVars, uid, profileKey, keysReady, hookVars, wireVars,
                   framerVars, serveVars, serverVars, lifeVars, negotiation, auth>>

\* the profiles update of run r reaches the directory, and the run ends
\* with setKeysReady(true)
initializeKeysPublished(r) ==
    /\ r \in 1..Len(keyRuns)
    /\ keyRuns[r].pc = "update"
    /\ profileKey' = [profileKey EXCEPT ![1] = keyRuns[r].pubKey]
    /\ updates' = updates \cup {profilesUpdate(uid[1], keyRuns[r].pubKey)}
    /\ keysReady' = [keysReady EXCEPT ![1] = TRUE]
    /\ keyRuns' = [keyRuns EXCEPT ![r].pc = "done"]
    /\ UNCHANGED <<clockVars, uid, storedKeys, hookVars, wireVars, framerVars,
                   serveVars, relay, lifeVars, negotiation, auth>>

----------------------------------------------------------------------------
(* Specifications *)

\* two users with keys set up, each free to open the conversation with the other
Init ==
    /\ InitClock
    /\ uid = [p \in Parties |-> <<p>>]
    /\ InitKeysReady
    /\ InitHook
    /\ InitWire
    /\ FramerIdle
    /\ InitServe
    /\ InitServer
    /\ InitLife
    /\ InitOrder

Next ==
    \/ \E p \in Parties : StartSession(p)
    \/ \E p \in Parties : initPeerResume(p)
    \/ \E p \in Parties : OnConnect(p)
    \/ \E p \in Parties : OnClose(p)
    \/ \E p \in Parties, text \in Typed : SendBegin(p, text)
    \/ \E p \in Parties : SendFinish(p)
    \/ \E p \in Parties, i \in 1..MaxSends, kind \in TamperKinds : Deliver(p, i, kind)
    \/ \E step \in SessionSteps : SessionTick(step)

Spec == Init /\ [][Next]_vars

\* first run: any two distinct ids, any keys, up to the creation of the transports
InitSetup ==
    /\ InitClock
    /\ uid \in {f \in [Parties -> Ids] : f[1] # f[2]}
    /\ InitKeysAbsent
    /\ InitHook
    /\ InitWire
    /\ FramerIdle
    /\ InitServe
    /\ InitServer
    /\ InitLife
    /\ InitOrder

NextSetup ==
    \/ \E p \in Parties, privateKey \in PrivKeys : initializeKeys(p, privateKey)
    \/ \E p \in Parties : StartSession(p)
    \/ \E p \in Parties : initPeerResume(p)

SpecSetup == InitSetup /\ [][NextSetup]_vars

\* the framer alone
InitFramer ==
    /\ InitClock
    /\ uid = [p \in Parties |-> <<p>>]
    /\ InitKeysReady
    /\ InitHook
    /\ InitWire
    /\ InitFramerVars
    /\ InitServe
    /\ InitServer
    /\ InitLife
    /\ InitOrder

NextFramer ==
    \/ FEncrypt
    \/ \E f \in TamperedFields, bit \in 1..MaxBit : FTamper(f, bit)
    \/ \E key \in Secrets, expected \in ExpectedChoices : FDecrypt(key, expected)
    \/ \E step \in FramerSteps : FTick(step)

SpecFramer == InitFramer /\ [][NextFramer]_vars

\* the signaling validator alone
InitServing ==
    /\ InitClock
    /\ uid = [p \in Parties |-> UserId(p)]
    /\ InitKeysReady
    /\ InitHook
    /\ InitWire
    /\ FramerIdle
    /\ profiles \in ProfileTables
    /\ served = NotServed
    /\ InitServer
    /\ InitLife
    /\ InitOrder

NextServe ==
    \E req \in ServeRequests : ServeRequest(req)

SpecServe == InitServing /\ [][NextServe]_vars

\* user 1 with its keys set up, and its conversation view
InitViewing ==
    /\ InitClock
    /\ uid = [p \in Parties |-> IF p = 1 THEN ViewerId ELSE UserId(p)]
    /\ InitKeysReady
    /\ InitHook
    /\ InitWire
    /\ FramerIdle
    /\ InitServe
    /\ InitServer
    /\ InitLife
    /\ InitOrder

NextLife ==
    \/ \E q \in LifePeers : handleSelectUser(q)
    \/ closeView
    \/ \E e \in 1..MaxEffects : initPeer(e)
    \/ \E c \in 1..MaxEffects : onConnect(c)
    \/ \E c \in 1..MaxEffects : onCloseOrError(c)
    \/ \E c \in 1..MaxEffects, k \in 0..MaxTranscript : onDataOf(c, k)
    \/ \E text \in Typed : sendMessage(text)

SpecLife == InitViewing /\ [][NextLife]_vars

\* user 1 from the first run of its Chat page, under an id below or above
\* user 2's, and one conversation, with user 2 or with a user that has no
\* key: what its client and the others hand the directory and the relay
InitPublishing ==
    /\ InitClock
    /\ uid \in {[p \in Parties |-> IF p = 1 THEN id ELSE UserId(p)] :
                   id \in {UserId(1), ViewerId}}
    /\ InitKeysAbsent
    /\ InitHook
    /\ InitWire
    /\ FramerIdle
    /\ InitServe
    /\ InitServer
    /\ InitLife
    /\ InitOrder

NextRelay ==
    \/ \E privateKey \in PrivKeys : initializeKeys(1, privateKey)
    \/ \E q \in {2, KeylessPeer} : mountView(q)
    \/ \E e \in 1..MaxEffects : initPeer(e)
    \/ \E c \in 1..MaxEffects : onSignal(c)
    \/ \E b \in RemoteBroadcasts : onBroadcast(b)
    \/ \E c \in 1..MaxEffects : onConnect(c)
    \/ \E c \in 1..MaxEffects : onCloseOrError(c)
    \/ \E text \in Typed : sendMessage(text)

SpecRelay == InitPublishing /\ [][NextRelay]_vars

\* the two users, under any two distinct ids, each opening the conversation
\* with the other at a time of its own
InitHandshake ==
    /\ InitClock
    /\ uid \in {f \in [Parties -> Ids] : f[1] # f[2]}
    /\ InitKeysReady
    /\ InitHook
    /\ InitWire
    /\ FramerIdle
    /\ InitServe
    /\ InitServer
    /\ InitLife
    /\ InitOrder

NextHandshake ==
    \/ \E p \in Parties : StartSession(p)
    \/ \E p \in Parties : initPeerResume(p)
    \/ \E p \in Parties : emitSignal(p)
    \/ \E p \in Parties : onConnectNegotiated(p)

SpecHandshake == InitHandshake /\ [][NextHandshake]_vars

\* user 1's Chat page, on a device with or without a stored pair
InitKeyRuns ==
    /\ InitClock
    /\ uid \in {f \in [Parties -> Ids] : f[1] # f[2]}
    /\ \E k \in {0} \cup PrivKeys :
          storedKeys = [p \in Parties |->
                           IF p = 1 /\ k # 0 THEN generateKeyPair(k) ELSE NoKeys]
    /\ profileKey = [p \in Parties |-> EmptyKeyText]
    /\ keysReady = [p \in Parties |-> FALSE]
    /\ InitHook
    /\ InitWire
    /\ FramerIdle
    /\ InitServe
    /\ InitServer
    /\ InitLife
    /\ InitOrder

NextKeyRuns ==
    \/ initializeKeysCalled
    \/ \E r \in 1..MaxRuns : initializeKeysLoaded(r)
    \/ \E r \in 1..MaxRuns, privateKey \in PrivKeys : initializeKeysStored(r, privateKey)
    \/ \E r \in 1..MaxRuns : initializeKeysPublished(r)

SpecKeyRuns == InitKeyRuns /\ [][NextKeyRuns]_vars

----------------------------------------------------------------------------
(* Presence: AuthProvider and the directory's online_status *)

\* updateOnlineStatus(online) of a render whose `user` is the given one
\* (0 = null): the profiles table after it; a null user returns at once,
\* and the update touches the row of user.id only if there is one
updateOnlineStatus(user, online) ==
    IF user = 0 \/ profiles[uid[user]] = "absent"
    THEN profiles
    ELSE [profiles EXCEPT ![uid[user]] = IF online THEN "online" ELSE "offline"]

\* signIn on the sign-in page: signInWithPassword succeeds, the client
\* holds the session and emits SIGNED_IN to its listeners
signIn ==
    /\ auth.user = 0
    /\ auth.stored = 0
    /\ auth.signIns < MaxSignIns
    /\ auth' = [auth EXCEPT !.stored = 1,
                            !.signIns = @ + 1,
                            !.last = "SIGNED_IN",
                            !.events = Append(@, [event |-> "SIGNED_IN", session |-> 1])]
    /\ UNCHANGED <<clockVars, uid, keyVars, hookVars, wireVars, framerVars,
                   serveVars, serverVars, lifeVars, negotiation, keyRuns>>

\* the listener registered by the effect handles the next event:
\* setSession, setUser, and a timer for updateOnlineStatus
onAuthStateChange ==
    /\ auth.events # <<>>
    /\ LET e == Head(auth.events)
       IN  auth' = [auth EXCEPT
               !.events = Tail(@),
               !.user = e.session,
               !.timers = IF e.session # 0 /\ e.event = "SIGNED_IN"
                          THEN Append(@, TRUE)
                          ELSE IF e.event = "SIGNED_OUT"
                          THEN Append(@, FALSE)
                          ELSE @]
    /\ UNCHANGED <<clockVars, uid, keyVars, hookVars, wireVars, framerVars,
                   serveVars, serverVars, lifeVars, negotiation, keyRuns>>

\* supabase.auth.getSession() of the effect resolves with the session the
\* client holds: setSession, setUser, setLoading, and a timer if there is one
getSessionResolved ==
    /\ auth.getSession = "pending"
    /\ auth' = [auth EXCEPT
           !.getSession = "done",
           !.user = auth.stored,
           !.last = IF auth.stored # 0 /\ @ = "none" THEN "RESTORED" ELSE @,
           !.timers = IF auth.stored # 0 THEN Append(@, TRUE) ELSE @]
    /\ UNCHANGED <<clockVars, uid, keyVars, hookVars, wireVars, framerVars,
                   serveVars, serverVars, lifeVars, negotiation, keyRuns>>

\* the oldest setTimeout(..., 0) callback runs: updateOnlineStatus of the
\* render the effect ran in, the effect having no dependencies
onTimeout ==
    /\ auth.timers # <<>>
    /\ profiles' = updateOnlineStatus(auth.closure.user, Head(auth.timers))
    /\ auth' = [auth EXCEPT !.timers = Tail(@)]
    /\ UNCHANGED <<clockVars, uid, keyVars, hookVars, wireVars, framerVars,
                   served, serverVars, lifeVars, negotiation, keyRuns>>

\* signOut of the current render, called from the Chat page:
\* updateOnlineStatus(false) with that render's user, then auth.signOut(),
\* after which the client emits SIGNED_OUT
signOut ==
    /\ auth.user # 0
    /\ auth.stored # 0
    /\ profiles' = updateOnlineStatus(auth.user, FALSE)
    /\ auth' = [auth EXCEPT !.stored = 0,
                            !.last = "SIGNED_OUT",
                            !.events = Append(@, [event |-> "SIGNED_OUT", session |-> 0])]
    /\ UNCHANGED <<clockVars, uid, keyVars, hookVars, wireVars, framerVars,
                   served, serverVars, lifeVars, negotiation, keyRuns>>

NextAuth ==
    \/ signIn
    \/ onAuthStateChange
    \/ getSessionResolved
    \/ onTimeout
    \/ signOut

\* user 1's page loads: signed out, its row online (as signUp inserted it)
\* or offline (as an earlier signOut left it), or with a session the
\* client restores and its row online
InitAuth ==
    /\ InitClock
    /\ uid = [p \in Parties |-> UserId(p)]
    /\ InitKeysAbsent
    /\ InitHook
    /\ InitWire
    /\ FramerIdle
    /\ served = NotServed
    /\ InitServer
    /\ InitLife
    /\ negotiation = [p \in Parties |-> NoSignals]
    /\ keyRuns = <<>>
    /\ \E stored \in {0, 1}, status \in {"online", "offline"} :
          /\ stored = 1 => status = "online"
          /\ auth = [stored |-> stored, user |-> 0, getSession |-> "pending",
                     events |-> <<>>, timers |-> <<>>, closure |-> [user |-> 0],
                     last |-> "none", signIns |-> 0]
          /\ profiles = [id \in AuthUsers |->
                            IF id = UserId(1) THEN status ELSE "online"]

SpecAuth == InitAuth /\ [][NextAuth]_vars

----------------------------------------------------------------------------
(* Properties *)

\* the peer-authored entries of p's transcript, in order
PeerEntries(p) == SelectSeq(messages[p], LAMBDA e : e.sender = uid[Other(p)])

\* C1: replay rejection at the session -- a frame delivered twice is
\* accepted once, so no envelope the peer sent appears more than once among
\* the peer-authored entries of the receiver's transcript.
C1_NoFrameTwiceInTranscript ==
    \A p \in Parties :
        \A i, j \in 1..Len(PeerEntries(p)) :
            PeerEntries(p)[i].id = PeerEntries(p)[j].id => i = j

\* C2: strict in-order acceptance -- when the peer's frames numbered
\* 0, 1, ..., n have arrived unmodified, fresh and in order, all of them are
\* in the transcript as peer-authored, in that order, and the expected
\* counter is n + 1.
C2_InOrderFramesAccepted ==
    \A p \in Parties :
        ( /\ inOrder[p]
          /\ \A k \in 1..handled[p] : InnerPayload(net[p][k]).sequence = k - 1 )
        => /\ expectedIncomingSequence[p] = handled[p]
           /\ Len(PeerEntries(p)) = handled[p]
           /\ \A k \in 1..handled[p] :
                 /\ PeerEntries(p)[k].id = JSONparse(net[p][k]).id
                 /\ PeerEntries(p)[k].text = InnerPayload(net[p][k]).text

\* C3: outgoing sequence numbers -- the k-th frame a party transmits in a
\* session carries sequence number k - 1, in every interleaving of
\* sendMessage calls.
C3_SequenceIsOrdinal ==
    \A p \in Parties :
        \A k \in 1..Len(net[p]) : InnerPayload(net[p][k]).sequence = k - 1

\* C4: a rejected inbound frame changes nothing -- a 'data' event whose
\* decryption fails leaves the transcript, both counters, the connected flag
\* and the transport of the receiver as they were.
C4_RejectedFrameChangesNothing ==
    [][ \A p \in Parties :
          (handled'[p] = handled[p] + 1 /\ ~lastData'[p].ok)
          => /\ messages'[p] = messages[p]
             /\ expectedIncomingSequence'[p] = expectedIncomingSequence[p]
             /\ sequenceNumber'[p] = sequenceNumber[p]
             /\ connected'[p] = connected[p]
             /\ peer'[p] = peer[p]
             /\ transport'[p] = transport[p] ]_vars

\* a tampered frame was dropped by a connected party that holds a transcript
C4_Witness ==
    \E p \in Parties :
        /\ handled[p] > 0
        /\ ~lastData[p].ok
        /\ lastData[p].error = AuthError
        /\ connected[p]
        /\ messages[p] # <<>>

\* the timestamp encryptMessage chose for the frame under test
EncryptedAt == JSONparse(orig).timestamp

\* the frame under test differs from the produced one in ciphertext or iv
BitsChanged ==
    \/ JSONparse(wire).ciphertext # JSONparse(orig).ciphertext
    \/ JSONparse(wire).iv # JSONparse(orig).iv

\* C5: the two-party scenario -- a frame encrypted at sequence 0 decrypts
\* against expected sequence 0 to its text and sequence 0 and is rejected
\* against expected sequence 1; in general a decryption with an expected
\* sequence other than the frame's inner one fails.
C5_ExpectedSequenceDecides ==
    dec.called =>
        /\ (dec.expected # Undefined /\ dec.expected # fin.n) => ~dec.res.ok
        /\ ( /\ fin.n = 0 /\ wire = orig /\ dec.key = fin.s
             /\ dec.at - EncryptedAt <= FreshnessMs )
           => /\ dec.expected = 0 =>
                    (dec.res.ok /\ dec.res.text = fin.m /\ dec.res.sequence = 0)
              /\ dec.expected = 1 =>
                    (~dec.res.ok /\ dec.res.error = SequenceError)

\* the replayed frame 0 met expected sequence 1
C5_Witness ==
    /\ dec.called /\ fin.n = 0 /\ wire = orig /\ dec.key = fin.s
    /\ dec.expected = 1
    /\ dec.res.error = SequenceError

C8_TamperDetected ==
    (dec.called /\ dec.key = fin.s /\ BitsChanged)
    => (~dec.res.ok /\ dec.res.error = AuthError)

\* only the iv was changed, and the expected sequence was not the frame's
C8_Witness ==
    /\ dec.called /\ dec.key = fin.s
    /\ JSONparse(wire).iv # JSONparse(orig).iv
    /\ JSONparse(wire).ciphertext = JSONparse(orig).ciphertext
    /\ dec.expected \notin {fin.n, Undefined}
    /\ dec.res.error = AuthError

\* C9: freshness window -- an authentic frame with the expected sequence
\* is accepted while now - timestamp <= 300000 ms and fails with the
\* stale-message error once now - timestamp > 300000 ms, the timestamp being
\* the one encryptMessage authenticated, whatever the outer one says.
C9_FreshnessWindow ==
    (dec.called /\ ~BitsChanged /\ dec.key = fin.s /\ dec.expected = fin.n)
    => /\ dec.at - EncryptedAt <= 300000 => dec.res.ok
       /\ dec.at - EncryptedAt > 300000 =>
             (~dec.res.ok /\ dec.res.error = StaleError)

\* accepted at an age of exactly five minutes
C9_Witness ==
    /\ dec.called /\ wire = orig /\ dec.key = fin.s /\ dec.expected = fin.n
    /\ dec.at - EncryptedAt = 300000
    /\ dec.res.ok

\* a compares lower than b: a is a proper prefix of b, or a has the smaller
\* code unit at the first place where they differ
LowerId(a, b) ==
    \E k \in 1..(Len(a) + 1) :
        /\ \A j \in 1..(k - 1) : j <= Len(b) /\ a[j] = b[j]
        /\ \/ k = Len(a) + 1 /\ Len(b) >= k
           \/ k <= Len(a) /\ k <= Len(b) /\ a[k] < b[k]

\* C7: shared-secret symmetry -- the secrets the two ends derive from their
\* own private key and the other's public key are equal.
C7_SharedSecretSymmetry ==
    (phase[1] = "ready" /\ phase[2] = "ready")
    => (sharedSecret[1] = sharedSecret[2] /\ sharedSecret[1] # NoSecret)

\* both ends derived, from different keypairs
C7_Witness ==
    /\ phase[1] = "ready" /\ phase[2] = "ready"
    /\ storedKeys[1].privateKey # storedKeys[2].privateKey

\* C10: deterministic role assignment -- of the two transports of a pair of
\* distinct identities exactly one is created as initiator, the one whose
\* local id compares lower.
C10_OneInitiatorTheLowerId ==
    (transport[1].created /\ transport[2].created)
    => /\ transport[1].initiator # transport[2].initiator
       /\ \A p \in Parties :
             transport[p].initiator <=> LowerId(uid[p], uid[Other(p)])

\* both transports exist and the lower id is a proper prefix of the other
C10_Witness ==
    /\ transport[1].created /\ transport[2].created
    /\ uid[1] = <<1, 2>> /\ uid[2] = <<1>>
    /\ transport[2].initiator

----------------------------------------------------------------------------
(* Properties of the signaling validator *)

\* the message of the request the validator answered last
ServedMessage == JSONparse(served.req.body)

\* an authenticated POST of a message with all four fields, sent under the
\* caller's own id, of a known type
ValidUpToRecipient ==
    /\ served.called
    /\ served.req.method = "POST"
    /\ served.req.authorization.scheme = "Bearer "
    /\ served.req.authorization.token \in AuthUsers
    /\ IsJSON(served.req.body)
    /\ ServedMessage.type \in SignalTypes
    /\ ServedMessage.from = served.req.authorization.token
    /\ ServedMessage.to # EmptyString
    /\ ServedMessage.payload # EmptyString

\* the recipient has a directory entry and that entry is online
RecipientOnline ==
    /\ ServedMessage.to \in DOMAIN profiles
    /\ profiles[ServedMessage.to] = "online"

\* C12: recipient eligibility -- a message that passes the earlier checks
\* and whose `to` is not an existing, currently online directory entry is
\* answered with the recipient-not-found error, never with success.
C12_IneligibleRecipientRejected ==
    (ValidUpToRecipient /\ ~RecipientOnline)
    => served.res = ErrorResponse(404, "Recipient not found")

\* the validator answered with its success body
ServedSuccess ==
    /\ served.res.status = 200
    /\ "success" \in DOMAIN served.res.body

\* the request carried a bearer token of an existing account
ServedAuthenticated ==
    /\ served.req.authorization.scheme = "Bearer "
    /\ served.req.authorization.token \in AuthUsers

\* one of type, from, to and payload is missing or empty
FieldMissing ==
    \/ ServedMessage.type = "" \/ ServedMessage.from = EmptyString
    \/ ServedMessage.to = EmptyString \/ ServedMessage.payload = EmptyString

\* C24: the validator answers success only to an authenticated request
\* whose message has all four fields, the caller's id as `from` and one of
\* the three types; a POST that fails a check is answered with the error of
\* the first check it fails, in the order authentication, format, sender,
\* type, recipient row
C24_FirstFailingCheckAnswers ==
    served.called =>
        /\ ServedSuccess =>
              /\ ServedAuthenticated
              /\ IsJSON(served.req.body)
              /\ ~FieldMissing
              /\ ServedMessage.from = served.req.authorization.token
              /\ ServedMessage.type \in SignalTypes
        /\ (served.req.method = "POST" /\ ~ServedAuthenticated)
              => /\ served.res.status = 401
                 /\ "error" \in DOMAIN served.res.body
        /\ (served.req.method = "POST" /\ ServedAuthenticated /\ IsJSON(served.req.body))
              => IF FieldMissing
                 THEN served.res = ErrorResponse(400, "Invalid message format")
                 ELSE IF ServedMessage.from # served.req.authorization.token
                 THEN served.res = ErrorResponse(403, "Sender ID mismatch")
                 ELSE IF ServedMessage.type \notin SignalTypes
                 THEN served.res = ErrorResponse(400, "Invalid message type")
                 ELSE IF selectProfile(profiles, ServedMessage.to) = NoRow
                 THEN served.res = ErrorResponse(404, "Recipient not found")
                 ELSE TRUE

\* a message with a missing field and another user's id as `from` was
\* answered with the format error
C24_Witness ==
    /\ served.called
    /\ served.req.method = "POST"
    /\ ServedAuthenticated
    /\ IsJSON(served.req.body)
    /\ ServedMessage.to = EmptyString
    /\ ServedMessage.from \notin {EmptyString, served.req.authorization.token}
    /\ served.res = ErrorResponse(400, "Invalid message format")

----------------------------------------------------------------------------
(* Properties of the signaling exchange and of what the servers are handed *)

\* C11: no sender spoofing -- a signaling message whose `from` is not the
\* identity of the authenticated party that sent it is never fed into a
\* transport's signaling acceptor: every signal fed to a transport of user 1
\* was handed to the relay by the user its `from` names.
C11_NoSpoofedSignalFed ==
    \A c \in 1..Len(conns) :
        \A b \in conns[c].fed : b.message.from = b.sender

----------------------------------------------------------------------------
(* Properties of the conversation view *)

\* the guard of sendMessage stops the call
GuardStops == hook.peer = 0 \/ ~hook.connected \/ hook.sharedSecret = NoSecret

\* C13: a sendMessage call made while the hook has no transport, is not
\* connected or has no shared secret transmits nothing on any transport,
\* hands the relay nothing and leaves the outgoing counter, the transcript
\* and the rest of the hook's state as they were
C13_SendNoOpOutsideConnected ==
    [][(lastSend' # lastSend /\ GuardStops)
          => /\ hook' = hook
             /\ conns' = conns
             /\ relay' = relay]_vars

\* a call was stopped although a transport and a secret were there
C13_Witness ==
    /\ lastSend.called /\ ~lastSend.passed
    /\ hook.peer # 0 /\ hook.sharedSecret # NoSecret /\ ~hook.connected

\* transport c belongs to the session with the selected peer: it was created
\* by the latest effect run of the mounted instance
OfCurrentSession(c) ==
    /\ conns[c].effect = Len(effects)
    /\ Live(conns[c].effect)

\* C14: when the transport of the session with the selected peer reports
\* 'connect', the hook's outgoing counter, its expected incoming counter and
\* the expected incoming counter the transport's data handler uses are 0
C14_CountersZeroAtConnect ==
    [][\A c \in 1..Len(conns) :
          (/\ OfCurrentSession(c)
           /\ ~conns[c].established
           /\ conns'[c].established)
          => /\ hook'.sequenceNumber = 0
             /\ hook'.expectedIncomingSequence = 0
             /\ conns'[c].expected = 0]_vars

\* C15: once an effect run whose setup had completed is cleaned up (the view
\* closed or the selected peer changed), the transport it created is
\* destroyed and its signaling subscription is no longer with the relay
C15_TeardownReleases ==
    \A e \in 1..Len(effects) :
        effects[e].cleaned = "done"
            => /\ e \notin subs
               /\ \A c \in 1..Len(conns) :
                      conns[c].effect = e => conns[c].destroyed

\* C20: an effect run that was cleaned up while its initPeer was still
\* suspended at its awaits has no transport and no signaling subscription,
\* then or later
C20_CancelledSetupCreatesNothing ==
    \A e \in 1..Len(effects) :
        effects[e].cleaned = "getKeys"
            => /\ e \notin subs
               /\ \A c \in 1..Len(conns) : conns[c].effect # e

SignalFields == {"type", "from", "to", "payload"}

SignalPayloads ==
    {SignalData(type, c) : type \in SignalTypes, c \in 1..(MaxEffects + 1)}

\* C17: every profile update the client has sent sets public_key and nothing
\* else, to the base64 text of the public half of the stored pair; every
\* signaling message it has published has the fields type, from, to and
\* payload and nothing else, the payload being the transport's signaling
\* data: neither holds the private key or a typed text
C17_ServerSeesNoSecret ==
    /\ \A u \in updates :
          /\ u.user_id = uid[1]
          /\ DOMAIN u.set = {"public_key"}
          /\ storedKeys[1] # NoKeys
          /\ u.set.public_key = publicKeyToBase64(storedKeys[1].publicKey)
          /\ base64ToPublicKey(u.set.public_key) = getPublicKey(storedKeys[1].privateKey)
    /\ \A b \in relay :
          /\ DOMAIN b.message = SignalFields
          /\ b.message.payload \in SignalPayloads
          /\ b.message.from = uid[1]
          /\ b.message.to = UserId(2)

\* the public key was published, a signal was published and a message was
\* sent over the data channel
C17_Witness ==
    /\ updates # {}
    /\ relay # {}
    /\ \E c \in 1..Len(conns) : conns[c].sent # <<>>

\* the sequence number inside the authenticated payload of the frame on the wire
InnerSequence == JSONparse(atob(JSONparse(wire).ciphertext).data).sequence

\* C18: a decryptMessage call with an expected sequence, on a frame whose
\* outer sequence field differs from the sequence inside its authenticated
\* payload, does not succeed
C18_OuterSequenceMustAgree ==
    (/\ dec.called
     /\ dec.expected # Undefined
     /\ JSONparse(wire).sequence # InnerSequence)
        => ~dec.res.ok

\* the 'data' handler of p has just appended a peer-authored entry
PeerEntryAppended(p) ==
    /\ Len(messages'[p]) = Len(messages[p]) + 1
    /\ messages'[p][Len(messages'[p])].sender = uid[Other(p)]

\* C19: whenever a peer-authored entry is appended to a transcript, the
\* frame just handled was authenticated under the session's secret, carried
\* the sequence number the receiver expected next and was no older than the
\* freshness window, and the entry's text is that frame's text
C19_OnlyValidatedPlaintext ==
    [][\A p \in Parties :
          PeerEntryAppended(p)
              => /\ lastData'[p].ok
                 /\ lastData'[p].text = messages'[p][Len(messages'[p])].text
                 /\ lastData'[p].sequence = expectedIncomingSequence[p]
                 /\ now - lastData'[p].timestamp <= FreshnessMs]_vars

\* what MessageInterface shows next to the peer's name
ConnectionIndicator ==
    IF hook.connected THEN "Connected (P2P)" ELSE "Connecting..."

\* initPeer of the current session ended at a key failure
KeyFailure(e) ==
    /\ e = Len(effects)
    /\ Live(e)
    /\ effects[e].stage \in {"nokeys", "threw"}

\* C21: when initPeer of the current session ended because the local keys
\* were absent or the peer's public key was unusable, the view does not show
\* the session as still connecting, and the session has no transport, no
\* subscription and no published signal
C21_KeyFailureIsFailed ==
    \A e \in 1..Len(effects) :
        KeyFailure(e)
            => /\ ConnectionIndicator # "Connecting..."
               /\ \A c \in 1..Len(conns) : conns[c].effect # e
               /\ e \notin subs
               /\ relay = {}

\* the peer of the session transport c belongs to
PeerOf(c) == UserId(effects[conns[c].effect].peerId)

\* C22: what a transport has been fed was broadcast on the channel named by
\* its session's peer and addressed to the local user; what the local
\* transports emitted is published on the channel named by the local user,
\* from the local user, to the peer of the emitting transport's session
C22_SignalingRouting ==
    /\ \A c \in 1..Len(conns) :
          \A b \in conns[c].fed :
              /\ b.channel = PeerOf(c)
              /\ b.message.to = uid[1]
    /\ \A b \in relay :
          /\ b.channel = uid[1]
          /\ b.message.from = uid[1]
          /\ \E c \in 1..Len(conns) :
                /\ b.message.payload = SignalData(b.message.type, c)
                /\ b.message.to = PeerOf(c)

\* the responder was fed the peer's offer and has published its answer
C22_Witness ==
    \E c \in 1..Len(conns) :
        /\ ~conns[c].initiator
        /\ conns[c].fed # {}
        /\ \E b \in relay : b.message.type = "answer"

\* C23: once both users have opened the session with the other, the offer
\* the initiator has published has been fed to the responder's transport
C23_NoOfferLost ==
    \A p \in Parties :
        (/\ Subscribed(1) /\ Subscribed(2)
         /\ transport[p].initiator
         /\ "offer" \in negotiation[p].emitted)
            => "offer" \in negotiation[Other(p)].fed

\* the place, in the peer's sending order, of the frame whose entry was
\* appended to p's transcript last
LastAppended(p) == messages'[p][Len(messages'[p])].id[2]

\* C25: a frame of the peer is appended to the transcript only if every
\* frame the peer sent before it can have been delivered: with fewer 'data'
\* events so far than frames sent before it, one of those was lost, and the
\* frame is rejected
C25_NothingAcceptedAfterLoss ==
    [][\A p \in Parties :
          PeerEntryAppended(p) => handled[p] >= LastAppended(p) - 1]_vars

\* C26: a stored keypair is never replaced by a different one
C26_StoredPairNeverReplaced ==
    [][storedKeys[1] # NoKeys => storedKeys'[1] = storedKeys[1]]_vars

\* every run of initializeKeys so far has completed
AllRunsDone ==
    /\ keyRuns # <<>>
    /\ \A r \in 1..Len(keyRuns) : keyRuns[r].pc = "done"

\* C29: when every run of initializeKeys has completed, the public key in
\* the user's directory profile is the public half of the stored pair, and
\* the secret a peer derives from it is the one the device derives
C29_PublishedKeyIsStoredKey ==
    AllRunsDone
        => /\ storedKeys[1] # NoKeys
           /\ profileKey[1] = publicKeyToBase64(storedKeys[1].publicKey)
           /\ \A k \in PrivKeys :
                 generateSharedSecret(k, base64ToPublicKey(profileKey[1]))
                     = generateSharedSecret(storedKeys[1].privateKey, getPublicKey(k))

\* C27: the hook reports connected only while the transport of the session
\* with the selected peer is established and not destroyed
C27_IndicatorIsCurrentSession ==
    hook.connected
        => \E c \in 1..Len(conns) :
               /\ OfCurrentSession(c)
               /\ Usable(conns[c])

\* the entry is a message user 1 sent on a transport of the current session
SentInCurrentSession(entry) ==
    /\ entry.sender = uid[1]
    /\ \E c \in 1..Len(conns) :
          /\ OfCurrentSession(c)
          /\ \E i \in 1..Len(conns[c].sent) :
                JSONparse(conns[c].sent[i]).id = entry.id

\* C28: while a peer is selected, every entry of the transcript is a message
\* sent on the current session's transport or a message from the selected
\* peer, and the hook's secret is none or the current session's
C28_NothingCarriedAcrossSessions ==
    selectedPeer # 0
        => /\ \A i \in 1..Len(hook.messages) :
                 \/ SentInCurrentSession(hook.messages[i])
                 \/ hook.messages[i].sender = UserId(selectedPeer)
           /\ \/ hook.sharedSecret = NoSecret
              \/ \E c \in 1..Len(conns) :
                    OfCurrentSession(c) /\ conns[c].secret = hook.sharedSecret

AuthSettled ==
    /\ auth.getSession = "done"
    /\ auth.events = <<>>
    /\ auth.timers = <<>>

\* C31: once everything pending has run, a user whose latest change of
\* session was a sign-in or a restored session is online in the directory,
\* which is what lists it to the others (online_status true, another
\* user's id), and one whose latest change was a sign-out is not
C31_PresenceFollowsAuth ==
    AuthSettled
        => /\ auth.last \in {"SIGNED_IN", "RESTORED"}
                => profiles[uid[1]] = "online"
           /\ auth.last = "SIGNED_OUT"
                => profiles[uid[1]] # "online"

====
